---- MODULE Spec2Model ----
(***************************************************************************)
(* PubMed MCP server: the pubmed_articles tool-call handler                *)
(* (src/src/index.js, lines 89-184) and the gateway functions it calls     *)
(* (searchKeywords, searchAdvanced, getArticleMetadata,                    *)
(* downloadFullTextPdf, searchPubMed, getPubMedMetadata, lines 200-448).   *)
(*                                                                         *)
(* One behaviour is one invocation of the handler.  The handler suspends   *)
(* only at its awaits on axios.get, so an action is the code that runs     *)
(* between two awaits: it consumes the reply of the call in flight and     *)
(* runs up to the next call or to the return.  The upstream service is the *)
(* environment: each reply is chosen from a set of replies that covers     *)
(* timeouts, transport failures, unparsable bodies and parsed documents of *)
(* every shape the code distinguishes.                                     *)
(***************************************************************************)
EXTENDS Integers, Sequences, FiniteSets, TLC

VARIABLES
    req,        \* request.params of the invocation: name and arguments
    pc,         \* where the invocation is: called, search, fetch, returned, threw
    pmids,      \* searchKeywords / searchAdvanced: const pmids
    idx,        \* position of the for..of loop over pmids
    articles,   \* searchKeywords / searchAdvanced: const articles
    pmidStr,    \* getArticleMetadata / downloadFullTextPdf: const pmidStr
    inflight,   \* indexes in calls of the axios.get calls not yet settled
    calls,      \* history: every axios.get issued, in order
    replies,    \* history: the upstream's reply to each call, in order
    fetched,    \* history: what each getPubMedMetadata call returned, in order
    response,   \* what the handler gave its caller
    prev        \* history: the previous invocation (req, calls, replies, response)

vars ==
    <<req, pc, pmids, idx, articles, pmidStr, inflight, calls, replies, fetched, response, prev>>

----------------------------------------------------------------------------
(* Bounds of the model *)

\* longest Id list the search reply carries
MaxIds == 2

----------------------------------------------------------------------------
(* JavaScript values.  Every value carries its type, so that a string, the *)
(* number it spells, undefined and null stay distinct.                     *)

Undefined == [t |-> "undefined"]
Null == [t |-> "null"]
Str(s) == [t |-> "string", v |-> s]
Num(n) == [t |-> "number", v |-> n]
Obj(r) == [t |-> "object", o |-> r]
Arr(s) == [t |-> "array", a |-> s]

\* ToBoolean: the conditions `!x`, `if (x)`, `x || d`
Truthy(x) ==
    \/ x.t = "string" /\ x.v # ""
    \/ x.t = "number" /\ x.v # 0
    \/ x.t \in {"object", "array"}

\* a default in a destructuring pattern or parameter list: applies to undefined only
Default(x, d) == IF x = Undefined THEN d ELSE x

\* x || d
OrElse(x, d) == IF Truthy(x) THEN x ELSE d

Digit == <<"0", "1", "2", "3", "4", "5", "6", "7", "8", "9">>

RECURSIVE Digits(_)
Digits(n) == IF n < 10 THEN Digit[n + 1] ELSE Digits(n \div 10) \o Digit[(n % 10) + 1]

\* Number.prototype.toString of an integer (below 10^21, where JavaScript
\* switches to exponent notation)
NumberToString(n) == IF n < 0 THEN "-" \o Digits(0 - n) ELSE Digits(n)

\* `${x}` : ToString of a template-literal substitution
TemplateString(x) ==
    CASE x.t = "string" -> x.v
      [] x.t = "number" -> NumberToString(x.v)
      [] x.t = "undefined" -> "undefined"
      [] x.t = "null" -> "null"

RECURSIVE JoinFrom(_, _, _)
JoinFrom(s, sep, i) ==
    IF i > Len(s) THEN ""
    ELSE IF i = Len(s) THEN s[i]
    ELSE s[i] \o sep \o JoinFrom(s, sep, i + 1)

\* Array.prototype.join on an array of strings
Join(s, sep) == JoinFrom(s, sep, 1)

\* JSON.stringify(value, null, 2): the text of the content block.  Kept as the
\* serialised value: the serialisation is injective on the values built here.
JSONstringify(value) == [json |-> value]

\* encodeURIComponent(term): percent-encoding of the term, kept symbolic
encodeURIComponent(term) == [uri |-> TemplateString(term)]

----------------------------------------------------------------------------
(* Requests: request.params = { name, arguments }.  arguments is undefined *)
(* or a flat bag in which an absent parameter reads as undefined.          *)

NoArgs ==
    [method |-> Undefined, keywords |-> Undefined, num_results |-> Undefined,
     pmid |-> Undefined, term |-> Undefined, title |-> Undefined,
     author |-> Undefined, journal |-> Undefined, start_date |-> Undefined,
     end_date |-> Undefined]

ToolCall(name, args) == [name |-> name, args |-> args]

Methods == {"search_keywords", "search_advanced", "get_article_metadata", "get_article_pdf"}

\* a tool this server does not register
OtherToolRequests ==
    {ToolCall("other_tool", Obj([NoArgs EXCEPT !.method = Str("search_keywords"),
                                               !.keywords = Str("cancer therapy")]))}

\* no arguments at all; no method; a method outside the enum
UnroutedRequests ==
    {ToolCall("pubmed_articles", Undefined),
     ToolCall("pubmed_articles", Obj(NoArgs)),
     ToolCall("pubmed_articles", Obj([NoArgs EXCEPT !.method = Str("delete_article")]))}

KeywordRequests ==
    {ToolCall("pubmed_articles",
              Obj([NoArgs EXCEPT !.method = Str("search_keywords"),
                                 !.keywords = k, !.num_results = n])) :
        k \in {Undefined, Str(""), Str("cancer therapy")},
        n \in {Undefined, Num(1), Num(2)}}

AdvancedArgs(term, title, author, journal, start, end, n) ==
    Obj([NoArgs EXCEPT !.method = Str("search_advanced"), !.term = term,
                       !.title = title, !.author = author, !.journal = journal,
                       !.start_date = start, !.end_date = end, !.num_results = n])

\* the advanced searches of the general specification: a term, a start date, or none
AdvancedRequests ==
    {ToolCall("pubmed_articles",
              AdvancedArgs(term, Undefined, Undefined, Undefined, start, Undefined, n)) :
        term \in {Undefined, Str("crispr")},
        start \in {Undefined, Str("2023/01/01")},
        n \in {Undefined, Num(0)}}

\* every combination of absent, empty and set for the six filters
AllAdvancedRequests ==
    {ToolCall("pubmed_articles", AdvancedArgs(term, title, author, journal, start, end, n)) :
        term \in {Undefined, Str(""), Str("crispr")},
        title \in {Undefined, Str(""), Str("gene editing")},
        author \in {Undefined, Str(""), Str("Smith J")},
        journal \in {Undefined, Str(""), Str("Nature")},
        start \in {Undefined, Str(""), Str("2023/01/01")},
        end \in {Undefined, Str(""), Str("2024/12/31")},
        n \in {Undefined, Num(5)}}

\* pmid: oneOf string, integer (inputSchema, lines 48-54)
PmidNumbers == {0, 7, 105}
PmidStrings == {"", "0", "7", "105", "007"}
PmidValues == {Undefined} \cup {Num(n) : n \in PmidNumbers} \cup {Str(s) : s \in PmidStrings}

PmidRequests ==
    {ToolCall("pubmed_articles", Obj([NoArgs EXCEPT !.method = Str(m), !.pmid = p])) :
        m \in {"get_article_metadata", "get_article_pdf"}, p \in PmidValues}

Requests ==
    OtherToolRequests \cup UnroutedRequests \cup KeywordRequests
        \cup AdvancedRequests \cup PmidRequests

----------------------------------------------------------------------------
(* Upstream replies.  axios.get rejects on a timeout, a transport failure  *)
(* or a non-2xx status; parseXML rejects on a body that is not XML; a      *)
(* parsed document is the object xml2js builds (child elements as arrays,  *)
(* element text under "_", attributes under "$").                          *)

Seqs(S, n) == UNION {[1..k -> S] : k \in 0..n}

FailedReplies ==
    {[status |-> "timeout"], [status |-> "network_error"],
     [status |-> "ok", parsed |-> FALSE]}

Parsed(doc) == [status |-> "ok", parsed |-> TRUE, doc |-> doc]

\* an <Id> element: a plain string (possibly empty) or an object with its text
\* under "_" (possibly without text)
IdNodes ==
    {Str("31452104"), Str(""), Obj([text |-> Str("29083406")]), Obj([text |-> Undefined])}

\* eSearchResult.IdList[0].Id: absent, or the array of the <Id> elements
SearchReplies ==
    FailedReplies \cup {Parsed([Id |-> Undefined])}
        \cup {Parsed([Id |-> Arr(ids)]) : ids \in Seqs(IdNodes, MaxIds) \ {<<>>}}

ArticleId(type, text) == Obj([IdType |-> type, text |-> text])

\* PubmedData[0].ArticleIdList[0].ArticleId: several entries, one without a
\* type, two of type pmc
SeveralIds ==
    Arr(<<ArticleId(Str("pubmed"), Str("31452104")),
          ArticleId(Undefined, Str("PMC0000001")),
          ArticleId(Str("doi"), Str("10.1038/s41591-024-12345-6")),
          ArticleId(Str("pmc"), Str("PMC1234567")),
          ArticleId(Str("pmc"), Str("PMC7654321"))>>)

\* an entry of type pmc that has no text
PmcWithoutText == Arr(<<ArticleId(Str("pmc"), Undefined)>>)

PubDate(year, month, day) == Obj([Year |-> year, Month |-> month, Day |-> day])

\* MedlineCitation[0]: the parts of Article[0] the record is built from
BareCitation ==
    [ArticleTitle |-> Undefined, JournalTitle |-> Undefined, PubDate |-> Undefined]

FullCitation ==
    [ArticleTitle |-> Str("Gene editing in oncology"), JournalTitle |-> Str("Nature Medicine"),
     PubDate |-> PubDate(Str("2024"), Str("Mar"), Str("15"))]

ArticleDoc(citation, articleIds) ==
    Parsed([PubmedArticle |-> Obj([MedlineCitation |-> Obj(citation), ArticleId |-> articleIds])])

FetchReplies ==
    FailedReplies
        \cup {Parsed([PubmedArticle |-> Undefined]),
              Parsed([PubmedArticle |-> Obj([MedlineCitation |-> Undefined,
                                             ArticleId |-> Undefined])])}
        \cup {ArticleDoc(BareCitation, Undefined), ArticleDoc(FullCitation, SeveralIds),
              ArticleDoc(FullCitation, PmcWithoutText)}

----------------------------------------------------------------------------
(* The gateway's functions of one reply *)

generatePubMedSearchUrl(term, numResults) ==
    [base |-> "https://eutils.ncbi.nlm.nih.gov/entrez/eutils/esearch.fcgi",
     db |-> "pubmed", term |-> encodeURIComponent(term),
     retmax |-> TemplateString(numResults), retmode |-> "xml"]

\* the url of getPubMedMetadata (line 244)
EfetchUrl(pmid) ==
    "https://eutils.ncbi.nlm.nih.gov/entrez/eutils/efetch.fcgi?db=pubmed&id="
        \o TemplateString(pmid) \o "&retmode=xml"

\* the loop of searchPubMed over the <Id> elements
RECURSIVE PushIds(_, _)
PushIds(ids, i) ==
    IF i > Len(ids) THEN <<>>
    ELSE IF ids[i].t = "string" THEN <<ids[i]>> \o PushIds(ids, i + 1)
    ELSE IF Truthy(ids[i].o.text) THEN <<ids[i].o.text>> \o PushIds(ids, i + 1)
    ELSE PushIds(ids, i + 1)

\* what searchPubMed returns once its axios.get has settled with `reply`
searchPubMed(reply) ==
    IF reply.status # "ok" THEN <<>>
    ELSE IF ~reply.parsed THEN <<>>
    ELSE IF Truthy(reply.doc.Id) THEN PushIds(reply.doc.Id.a, 1)
    ELSE <<>>

\* the scans of the ArticleId list for the first entry of one IdType
RECURSIVE FirstIdOfType(_, _, _)
FirstIdOfType(ids, type, i) ==
    IF i > Len(ids) THEN Str("")
    ELSE IF ids[i].o.IdType = Str(type) THEN ids[i].o.text
    ELSE FirstIdOfType(ids, type, i + 1)

ArticleIdOfType(articleIds, type) ==
    IF Truthy(articleIds) THEN FirstIdOfType(articleIds.a, type, 1) ELSE Str("")

\* [year, month, day].filter(Boolean)
DateParts(pubDate) ==
    SelectSeq(<<OrElse(pubDate.o.Year, Str("")).v, OrElse(pubDate.o.Month, Str("")).v,
                OrElse(pubDate.o.Day, Str("")).v>>,
              LAMBDA part : part # "")

PublicationDate(pubDate) ==
    IF Truthy(pubDate) THEN Str(Join(DateParts(pubDate), "-")) ELSE Str("Unknown date")

\* the record getPubMedMetadata builds (authors, abstract, keywords and
\* mesh_terms, which no operation reads back, are left out)
ArticleRecord(pmid, citation, articleIds) ==
    Obj([pmid |-> pmid,
         title |-> OrElse(citation.ArticleTitle, Str("No title available")),
         journal |-> OrElse(citation.JournalTitle, Str("Unknown journal")),
         publication_date |-> PublicationDate(citation.PubDate),
         doi |-> ArticleIdOfType(articleIds, "doi"),
         pmcid |-> ArticleIdOfType(articleIds, "pmc"),
         url |-> Str("https://pubmed.ncbi.nlm.nih.gov/" \o TemplateString(pmid) \o "/")])

\* what getPubMedMetadata(pmid) returns once its axios.get has settled with `reply`
getPubMedMetadata(pmid, reply) ==
    IF reply.status # "ok" THEN Null
    ELSE IF ~reply.parsed THEN Null
    ELSE IF ~Truthy(reply.doc.PubmedArticle) THEN Null
    ELSE IF ~Truthy(reply.doc.PubmedArticle.o.MedlineCitation) THEN Null
    ELSE ArticleRecord(pmid, reply.doc.PubmedArticle.o.MedlineCitation.o,
                       reply.doc.PubmedArticle.o.ArticleId)

\* const terms of searchAdvanced, were the two open bounds of the date range swapped
AdvancedTermsBoundsSwapped(params) ==
    (IF Truthy(params.term) THEN <<params.term.v>> ELSE <<>>)
        \o (IF Truthy(params.title) THEN <<params.title.v \o "[Title]">> ELSE <<>>)
        \o (IF Truthy(params.author) THEN <<params.author.v \o "[Author]">> ELSE <<>>)
        \o (IF Truthy(params.journal) THEN <<params.journal.v \o "[Journal]">> ELSE <<>>)
        \o (IF Truthy(params.start_date) /\ Truthy(params.end_date)
              THEN <<params.start_date.v \o ":" \o params.end_date.v \o "[Date - Publication]">>
            ELSE IF Truthy(params.start_date)
              THEN <<params.start_date.v \o ":1800[Date - Publication]">>
            ELSE IF Truthy(params.end_date)
              THEN <<"3000:" \o params.end_date.v \o "[Date - Publication]">>
            ELSE <<>>)

\* const terms of searchAdvanced, after its pushes
AdvancedTerms(params) ==
    (IF Truthy(params.term) THEN <<params.term.v>> ELSE <<>>)
        \o (IF Truthy(params.title) THEN <<params.title.v \o "[Title]">> ELSE <<>>)
        \o (IF Truthy(params.author) THEN <<params.author.v \o "[Author]">> ELSE <<>>)
        \o (IF Truthy(params.journal) THEN <<params.journal.v \o "[Journal]">> ELSE <<>>)
        \o (IF Truthy(params.start_date) /\ Truthy(params.end_date)
              THEN <<params.start_date.v \o ":" \o params.end_date.v \o "[Date - Publication]">>
            ELSE IF Truthy(params.start_date)
              THEN <<params.start_date.v \o ":3000[Date - Publication]">>
            ELSE IF Truthy(params.end_date)
              THEN <<"1800:" \o params.end_date.v \o "[Date - Publication]">>
            ELSE <<>>)

\* searchTerm of searchAdvanced
AdvancedSearchTerm(params) == Str(Join(AdvancedTerms(params), " AND "))

\* const pmidStr of getArticleMetadata and downloadFullTextPdf
NormalizePmid(pmid) == IF pmid.t = "number" THEN Str(NumberToString(pmid.v)) ELSE pmid

\* downloadFullTextPdf, were it to test `metadata` where it tests `metadata?.pmcid`
PdfResultWithoutPmcidTest(metadata, pmidString) ==
    IF metadata # Null
      THEN Obj([pdf_url |-> Str("https://www.ncbi.nlm.nih.gov/pmc/articles/"
                                  \o TemplateString(metadata.o.pmcid) \o "/pdf/"),
                message |-> Str("PDF may be available at PMC: "
                                  \o TemplateString(metadata.o.pmcid))])
      ELSE Obj([message |-> Str("PDF not directly available for PMID "
                                  \o TemplateString(pmidString)
                                  \o ". Check publisher website.")])

\* downloadFullTextPdf, were its advisory put under the key `error`
PdfResultAdvisoryAsError(metadata, pmidString) ==
    IF metadata # Null /\ Truthy(metadata.o.pmcid)
      THEN Obj([pdf_url |-> Str("https://www.ncbi.nlm.nih.gov/pmc/articles/"
                                  \o metadata.o.pmcid.v \o "/pdf/"),
                message |-> Str("PDF may be available at PMC: " \o metadata.o.pmcid.v)])
      ELSE Obj([error |-> Str("PDF not directly available for PMID "
                                \o TemplateString(pmidString)
                                \o ". Check publisher website.")])

\* what downloadFullTextPdf returns for the metadata it fetched
PdfResult(metadata, pmidString) ==
    IF metadata # Null /\ Truthy(metadata.o.pmcid)
      THEN Obj([pdf_url |-> Str("https://www.ncbi.nlm.nih.gov/pmc/articles/"
                                  \o metadata.o.pmcid.v \o "/pdf/"),
                message |-> Str("PDF may be available at PMC: " \o metadata.o.pmcid.v)])
      ELSE Obj([message |-> Str("PDF not directly available for PMID "
                                  \o TemplateString(pmidString)
                                  \o ". Check publisher website.")])

----------------------------------------------------------------------------
(* The handler *)

\* the envelope of a completed operation (lines 107-114, 126-133, 143-150, 160-167)
ResultEnvelope(result) ==
    [kind |-> "result", content |-> <<[type |-> "text", text |-> JSONstringify(result)]>>]

\* the catch of the handler, were it to throw the error on instead of wrapping it
CatchRethrows(message) == [kind |-> "thrown", message |-> message]

\* the catch of the handler (lines 173-183)
Catch(message) == ResultEnvelope(Obj([error |-> Str(message)]))

\* an exception that leaves the handler
Thrown(message) == [kind |-> "thrown", message |-> message]

\* the handler settles: its promise resolves with an envelope or rejects
Settle(outcome) ==
    /\ response' = outcome
    /\ pc' = IF outcome.kind = "thrown" THEN "threw" ELSE "returned"

\* axios.get(url, ...) is issued and awaited
Issue(api, url) ==
    /\ calls' = Append(calls, [api |-> api, url |-> url])
    /\ inflight' = (inflight \ {Len(calls)}) \cup {Len(calls) + 1}

\* the awaited axios.get settles with `reply`
Receive(reply) ==
    /\ inflight = {Len(calls)}
    /\ replies' = Append(replies, reply)

Routed(method) ==
    /\ pc = "called"
    /\ req.name = "pubmed_articles"
    /\ req.args # Undefined
    /\ req.args.o.method = Str(method)

\* the guard of searchAdvanced, were the emptiness of searchTerm not tested
HasSearchTermUnchecked(params) == TRUE

\* the guard of searchAdvanced (line 398)
HasSearchTerm(params) == Truthy(AdvancedSearchTerm(params))

\* lines 92-94
UnknownTool ==
    /\ pc = "called"
    /\ req.name # "pubmed_articles"
    /\ Settle(Thrown("Unknown tool: " \o req.name))
    /\ UNCHANGED <<req, pmids, idx, articles, pmidStr, inflight, calls, replies, fetched, prev>>

\* line 97 with arguments undefined: the destructuring throws a TypeError
ArgumentsMissing ==
    /\ pc = "called"
    /\ req.name = "pubmed_articles"
    /\ req.args = Undefined
    /\ Settle(Catch("Cannot destructure property 'method' of 'args' as it is undefined."))
    /\ UNCHANGED <<req, pmids, idx, articles, pmidStr, inflight, calls, replies, fetched, prev>>

\* lines 170-171
DefaultCase ==
    /\ pc = "called"
    /\ req.name = "pubmed_articles"
    /\ req.args # Undefined
    /\ \A m \in Methods : req.args.o.method # Str(m)
    /\ Settle(Catch("Unknown method: " \o TemplateString(req.args.o.method)))
    /\ UNCHANGED <<req, pmids, idx, articles, pmidStr, inflight, calls, replies, fetched, prev>>

\* lines 100-106, and searchKeywords up to its await of searchPubMed
SearchKeywordsCase ==
    /\ Routed("search_keywords")
    /\ IF ~Truthy(req.args.o.keywords)
         THEN /\ Settle(Catch("keywords parameter is required for search_keywords"))
              /\ UNCHANGED <<inflight, calls>>
         ELSE /\ Issue("esearch",
                       generatePubMedSearchUrl(req.args.o.keywords,
                                               Default(req.args.o.num_results, Num(10))))
              /\ pc' = "search"
              /\ UNCHANGED response
    /\ UNCHANGED <<req, pmids, idx, articles, pmidStr, replies, fetched, prev>>

\* lines 117-125, and searchAdvanced up to its await of searchPubMed
SearchAdvancedCase ==
    /\ Routed("search_advanced")
    /\ IF ~HasSearchTerm(req.args.o)
         THEN /\ Settle(Catch("At least one search parameter is required"))
              /\ UNCHANGED <<inflight, calls>>
         ELSE /\ Issue("esearch",
                       generatePubMedSearchUrl(
                           AdvancedSearchTerm(req.args.o),
                           OrElse(Default(req.args.o.num_results, Num(10)), Num(10))))
              /\ pc' = "search"
              /\ UNCHANGED response
    /\ UNCHANGED <<req, pmids, idx, articles, pmidStr, replies, fetched, prev>>

\* lines 136-142, and getArticleMetadata up to the await in getPubMedMetadata
GetArticleMetadataCase ==
    /\ Routed("get_article_metadata")
    /\ IF ~Truthy(req.args.o.pmid)
         THEN /\ Settle(Catch("pmid parameter is required for get_article_metadata"))
              /\ UNCHANGED <<inflight, calls, pmidStr>>
         ELSE /\ pmidStr' = NormalizePmid(req.args.o.pmid)
              /\ Issue("efetch", EfetchUrl(pmidStr'))
              /\ pc' = "fetch"
              /\ UNCHANGED response
    /\ UNCHANGED <<req, pmids, idx, articles, replies, fetched, prev>>

\* lines 153-159, and downloadFullTextPdf up to the await in getPubMedMetadata
GetArticlePdfCase ==
    /\ Routed("get_article_pdf")
    /\ IF ~Truthy(req.args.o.pmid)
         THEN /\ Settle(Catch("pmid parameter is required for get_article_pdf"))
              /\ UNCHANGED <<inflight, calls, pmidStr>>
         ELSE /\ pmidStr' = NormalizePmid(req.args.o.pmid)
              /\ Issue("efetch", EfetchUrl(pmidStr'))
              /\ pc' = "fetch"
              /\ UNCHANGED response
    /\ UNCHANGED <<req, pmids, idx, articles, replies, fetched, prev>>

InSearchFlow(method) ==
    /\ req.args # Undefined
    /\ req.args.o.method = Str(method)

\* the search call settles, were searchPubMed without its try/catch: the rejection
\* of axios.get or parseXML reaches the catch of the handler
SearchSettlesUncaught(method, reply) ==
    /\ pc = "search"
    /\ InSearchFlow(method)
    /\ Receive(reply)
    /\ pmids' = searchPubMed(reply)
    /\ IF reply \in FailedReplies
         THEN /\ Settle(Catch("timeout of 30000ms exceeded"))
              /\ inflight' = {}
              /\ UNCHANGED <<calls, idx>>
         ELSE IF pmids' = <<>>
         THEN /\ Settle(ResultEnvelope(Arr(articles)))
              /\ inflight' = {}
              /\ UNCHANGED <<calls, idx>>
         ELSE /\ idx' = 1
              /\ Issue("efetch", EfetchUrl(pmids'[1]))
              /\ pc' = "fetch"
              /\ UNCHANGED response
    /\ UNCHANGED <<req, articles, pmidStr, fetched, prev>>

\* the search call settles: searchPubMed returns, the loop starts or the list returns
SearchSettles(method, reply) ==
    /\ pc = "search"
    /\ InSearchFlow(method)
    /\ Receive(reply)
    /\ pmids' = searchPubMed(reply)
    /\ IF pmids' = <<>>
         THEN /\ Settle(ResultEnvelope(Arr(articles)))
              /\ inflight' = {}
              /\ UNCHANGED <<calls, idx>>
         ELSE /\ idx' = 1
              /\ Issue("efetch", EfetchUrl(pmids'[1]))
              /\ pc' = "fetch"
              /\ UNCHANGED response
    /\ UNCHANGED <<req, articles, pmidStr, fetched, prev>>

\* the push of the loop, were it not guarded by `if (metadata)`
PushedUnconditionally(list, metadata) == Append(list, metadata)

\* articles after `if (metadata) articles.push(metadata)`
Pushed(list, metadata) == IF Truthy(metadata) THEN Append(list, metadata) ELSE list

\* a fetch of the loop settles, were the loop to issue the identifier it has just
\* fetched once more where it issues the next one
LoopFetchSettlesSameIdAgain(method, reply) ==
    /\ pc = "fetch"
    /\ InSearchFlow(method)
    /\ Receive(reply)
    /\ fetched' = Append(fetched, getPubMedMetadata(pmids[idx], reply))
    /\ articles' = Pushed(articles, getPubMedMetadata(pmids[idx], reply))
    /\ IF idx < Len(pmids)
         THEN /\ idx' = idx + 1
              /\ Issue("efetch", EfetchUrl(pmids[idx]))
              /\ UNCHANGED <<pc, response>>
         ELSE /\ Settle(ResultEnvelope(Arr(articles')))
              /\ inflight' = {}
              /\ UNCHANGED <<calls, idx>>
    /\ UNCHANGED <<req, pmids, pmidStr, prev>>

\* a fetch of the loop settles, were the loop never to move past its identifier:
\* the invocation stays where it is
LoopFetchSettlesNeverAdvances(method, reply) ==
    /\ pc = "fetch"
    /\ InSearchFlow(method)
    /\ inflight = {Len(calls)}
    /\ UNCHANGED vars

\* a fetch of the loop settles: the record is kept or dropped, the loop goes on or ends
LoopFetchSettles(method, reply) ==
    /\ pc = "fetch"
    /\ InSearchFlow(method)
    /\ Receive(reply)
    /\ fetched' = Append(fetched, getPubMedMetadata(pmids[idx], reply))
    /\ articles' = Pushed(articles, getPubMedMetadata(pmids[idx], reply))
    /\ IF idx < Len(pmids)
         THEN /\ idx' = idx + 1
              /\ Issue("efetch", EfetchUrl(pmids[idx + 1]))
              /\ UNCHANGED <<pc, response>>
         ELSE /\ Settle(ResultEnvelope(Arr(articles')))
              /\ inflight' = {}
              /\ UNCHANGED <<calls, idx>>
    /\ UNCHANGED <<req, pmids, pmidStr, prev>>

\* searchKeywords, lines 365-375
KeywordsSearchSettles(reply) == SearchSettles("search_keywords", reply)
KeywordsFetchSettles(reply) == LoopFetchSettles("search_keywords", reply)

\* searchAdvanced, lines 405-415
AdvancedSearchSettles(reply) == SearchSettles("search_advanced", reply)
AdvancedFetchSettles(reply) == LoopFetchSettles("search_advanced", reply)

\* getArticleMetadata, line 422, and the handler's return (lines 143-150)
MetadataFetchSettles(reply) ==
    /\ pc = "fetch"
    /\ InSearchFlow("get_article_metadata")
    /\ Receive(reply)
    /\ fetched' = Append(fetched, getPubMedMetadata(pmidStr, reply))
    /\ Settle(ResultEnvelope(getPubMedMetadata(pmidStr, reply)))
    /\ inflight' = {}
    /\ UNCHANGED <<req, pmids, idx, articles, pmidStr, calls, prev>>

\* downloadFullTextPdf, lines 429-440, and the handler's return (lines 160-167)
PdfFetchSettles(reply) ==
    /\ pc = "fetch"
    /\ InSearchFlow("get_article_pdf")
    /\ Receive(reply)
    /\ fetched' = Append(fetched, getPubMedMetadata(pmidStr, reply))
    /\ Settle(ResultEnvelope(PdfResult(getPubMedMetadata(pmidStr, reply), pmidStr)))
    /\ inflight' = {}
    /\ UNCHANGED <<req, pmids, idx, articles, pmidStr, calls, prev>>

----------------------------------------------------------------------------
(* Specifications *)

Fresh ==
    /\ pc = "called"
    /\ pmids = <<>>
    /\ idx = 0
    /\ articles = <<>>
    /\ pmidStr = Undefined
    /\ inflight = {}
    /\ calls = <<>>
    /\ replies = <<>>
    /\ fetched = <<>>
    /\ response = [kind |-> "pending"]
    /\ prev = [kind |-> "none"]

Init == req \in Requests /\ Fresh

Dispatch ==
    \/ UnknownTool
    \/ ArgumentsMissing
    \/ DefaultCase
    \/ SearchKeywordsCase
    \/ SearchAdvancedCase
    \/ GetArticleMetadataCase
    \/ GetArticlePdfCase

Next ==
    \/ Dispatch
    \/ \E reply \in SearchReplies : KeywordsSearchSettles(reply)
    \/ \E reply \in SearchReplies : AdvancedSearchSettles(reply)
    \/ \E reply \in FetchReplies : KeywordsFetchSettles(reply)
    \/ \E reply \in FetchReplies : AdvancedFetchSettles(reply)
    \/ \E reply \in FetchReplies : MetadataFetchSettles(reply)
    \/ \E reply \in FetchReplies : PdfFetchSettles(reply)

Spec == Init /\ [][Next]_vars

\* the upstream finds nothing or fails: the search reply carries no identifier
EmptySearchReplies == FailedReplies \cup {Parsed([Id |-> Undefined])}

InitAdvanced == req \in AllAdvancedRequests /\ Fresh

NextAdvanced ==
    \/ SearchAdvancedCase
    \/ \E reply \in EmptySearchReplies : AdvancedSearchSettles(reply)

\* advanced searches over every combination of the six filters
SpecAdvanced == InitAdvanced /\ [][NextAdvanced]_vars

\* the server takes the next call: the same operation, the pmid now a string
RepeatWithStringPmid ==
    /\ pc = "returned"
    /\ prev.kind = "none"
    /\ req.args.o.pmid.t = "number"
    /\ \E s \in PmidStrings : req' = [req EXCEPT !.args.o.pmid = Str(s)]
    /\ prev' = [kind |-> "invocation", req |-> req, calls |-> calls,
                replies |-> replies, response |-> response]
    /\ pc' = "called"
    /\ pmids' = <<>>
    /\ idx' = 0
    /\ articles' = <<>>
    /\ pmidStr' = Undefined
    /\ inflight' = {}
    /\ calls' = <<>>
    /\ replies' = <<>>
    /\ fetched' = <<>>
    /\ response' = [kind |-> "pending"]

InitPmidForms == req \in {r \in PmidRequests : r.args.o.pmid.t = "number"} /\ Fresh

NextPmidForms ==
    \/ GetArticleMetadataCase
    \/ GetArticlePdfCase
    \/ \E reply \in FetchReplies : MetadataFetchSettles(reply)
    \/ \E reply \in FetchReplies : PdfFetchSettles(reply)
    \/ RepeatWithStringPmid

\* two calls of a single-article operation, an integer pmid and then a string pmid
SpecPmidForms == InitPmidForms /\ [][NextPmidForms]_vars

----------------------------------------------------------------------------
(* Properties *)

Payload == response.content[1].text.json

Calls(method) == req.args # Undefined /\ req.args.o.method = Str(method)

HasErrorField(value) == value.t = "object" /\ "error" \in DOMAIN value.o

IsTextEnvelope(r) ==
    /\ r.kind = "result"
    /\ Len(r.content) = 1
    /\ r.content[1].type = "text"

\* a parameter the request does not carry: absent, empty, or (for the integer
\* form of pmid) the 0 that the handler's `!pmid` takes for absent
Unset(value) == value = Undefined \/ value = Str("") \/ value = Num(0)

Filters(args) ==
    {args.term, args.title, args.author, args.journal, args.start_date, args.end_date}

\* the request is one the handler rejects for a missing parameter
FailsValidation(r) ==
    \/ r.args = Undefined
    \/ /\ r.args # Undefined
       /\ \/ r.args.o.method = Str("search_keywords") /\ Unset(r.args.o.keywords)
          \/ r.args.o.method = Str("get_article_metadata") /\ Unset(r.args.o.pmid)
          \/ r.args.o.method = Str("get_article_pdf") /\ Unset(r.args.o.pmid)
          \/ r.args.o.method = Str("search_advanced")
               /\ \A f \in Filters(r.args.o) : Unset(f)

UnknownMethod(r) ==
    /\ r.args # Undefined
    /\ \A m \in Methods : r.args.o.method # Str(m)

\* C1 as stated: whatever the operation name, the method, the parameters and the
\* upstream do, the handler never throws, and when it has settled it has returned
\* an envelope with a single text content block.
C1_NeverThrows ==
    /\ pc # "threw"
    /\ pc = "returned" => IsTextEnvelope(response)

\* C1 amended: for the operation name pubmed_articles the handler never throws and
\* returns an envelope with a single text content block, whatever the method, the
\* parameters (an absent bag included) and the upstream do; for any other
\* operation name it throws "Unknown tool: <name>" and issues no upstream call.
C1_EnvelopeForPubmedArticles ==
    /\ req.name = "pubmed_articles" =>
         /\ pc # "threw"
         /\ pc = "returned" => IsTextEnvelope(response)
    /\ req.name # "pubmed_articles" =>
         /\ pc \in {"called", "threw"}
         /\ calls = <<>>
         /\ pc = "threw" => response = Thrown("Unknown tool: " \o req.name)

\* an error raised inside the gateway (searchAdvanced without a filter) came back
\* as an envelope
C1_Witness ==
    /\ pc = "returned"
    /\ Calls("search_advanced")
    /\ IsTextEnvelope(response)
    /\ Payload = Obj([error |-> Str("At least one search parameter is required")])

C3_NoCallWhenInvalid == FailsValidation(req) => calls = <<>> /\ replies = <<>>

\* search_advanced without any filter has returned its error and made no call
C3_Witness ==
    /\ pc = "returned"
    /\ Calls("search_advanced")
    /\ FailsValidation(req)
    /\ HasErrorField(Payload)
    /\ calls = <<>>

ValidKeywordSearch(r) ==
    /\ r.args # Undefined
    /\ r.args.o.method = Str("search_keywords")
    /\ r.args.o.keywords.t = "string" /\ r.args.o.keywords.v # ""
    /\ r.args.o.num_results = Undefined
         \/ (r.args.o.num_results.t = "number" /\ r.args.o.num_results.v >= 1)

\* num_results, 10 when the request carries none
RequestedCount(r) ==
    IF r.args.o.num_results = Undefined THEN 10 ELSE r.args.o.num_results.v

\* C4: a valid search_keywords returns a list no longer than num_results and no
\* longer than the identifier list searchPubMed returned.
C4_AtMostNumResults ==
    pc = "returned" /\ ValidKeywordSearch(req) =>
        /\ Len(Payload.a) <= RequestedCount(req)
        /\ Len(Payload.a) <= Len(pmids)

InSearch == Calls("search_keywords") \/ Calls("search_advanced")

\* the non-null results among those getPubMedMetadata returned, in call order
Parsable(results) == SelectSeq(results, LAMBDA metadata : metadata # Null)

\* C5: in both search flows the returned list is the subsequence of the
\* identifier sequence whose fetches gave a record: one fetch per identifier in
\* order, the records of the successful fetches in that order, each under its
\* own identifier, and nothing else.
C5_ListIsParsableSubsequence ==
    pc = "returned" /\ InSearch /\ ~FailsValidation(req) =>
        /\ Len(fetched) = Len(pmids)
        /\ \A i \in 1..Len(pmids) :
             /\ calls[i + 1] = [api |-> "efetch", url |-> EfetchUrl(pmids[i])]
             /\ fetched[i] # Null <=>
                  /\ replies[i + 1] \notin FailedReplies
                  /\ Truthy(replies[i + 1].doc.PubmedArticle)
                  /\ Truthy(replies[i + 1].doc.PubmedArticle.o.MedlineCitation)
             /\ fetched[i] # Null => fetched[i].o.pmid = pmids[i]
        /\ Payload = Arr(Parsable(fetched))

\* of two identifiers the first fetch failed and the second gave its record
C5_Witness ==
    /\ pc = "returned"
    /\ InSearch
    /\ Len(pmids) = 2
    /\ fetched[1] = Null
    /\ fetched[2] # Null
    /\ Payload = Arr(<<fetched[2]>>)

\* C6: when the search call times out, fails in transport or returns an
\* unparsable body, the invocation has made that one call and no fetch, and has
\* returned the empty list, as it does for a search reply without identifiers.
C6_FailedSearchIsEmptySearch ==
    InSearch /\ replies # <<>> /\ replies[1] \in EmptySearchReplies =>
        /\ pc = "returned"
        /\ pmids = <<>>
        /\ Len(calls) = 1
        /\ calls[1].api = "esearch"
        /\ fetched = <<>>
        /\ response = ResultEnvelope(Arr(<<>>))

\* a search that timed out has returned the empty list
C6_Witness ==
    /\ pc = "returned"
    /\ InSearch
    /\ replies = <<[status |-> "timeout"]>>
    /\ Payload = Arr(<<>>)

NonEmptyString(value) == value.t = "string" /\ value.v # ""

\* C7: get_article_pdf returns pdf_url, the PMC link of the record's pmcid, and
\* a message when the fetched record has a non-empty pmcid (the first ArticleId
\* of type pmc); otherwise, the pmcid empty or no record fetched, it returns the
\* message alone.
C7_PdfUrlIffPmcid ==
    pc = "returned" /\ Calls("get_article_pdf") /\ ~FailsValidation(req) =>
        /\ Payload.t = "object"
        /\ IF fetched[1] # Null /\ NonEmptyString(fetched[1].o.pmcid)
             THEN /\ DOMAIN Payload.o = {"pdf_url", "message"}
                  /\ Payload.o.pdf_url =
                       Str("https://www.ncbi.nlm.nih.gov/pmc/articles/"
                             \o fetched[1].o.pmcid.v \o "/pdf/")
             ELSE DOMAIN Payload.o = {"message"}
        /\ replies[1] = ArticleDoc(FullCitation, SeveralIds) =>
             Payload.o.pdf_url =
                 Str("https://www.ncbi.nlm.nih.gov/pmc/articles/PMC1234567/pdf/")
        /\ replies[1] = ArticleDoc(FullCitation, PmcWithoutText) =>
             DOMAIN Payload.o = {"message"}

\* a record with a pmcid gave the link
C7_Witness ==
    /\ pc = "returned"
    /\ Calls("get_article_pdf")
    /\ fetched # <<>>
    /\ fetched[1] # Null
    /\ fetched[1].o.pmcid = Str("PMC1234567")
    /\ DOMAIN Payload.o = {"pdf_url", "message"}
    /\ Payload.o.pdf_url = Str("https://www.ncbi.nlm.nih.gov/pmc/articles/PMC1234567/pdf/")

\* the records the payload carries
ReturnedRecords ==
    IF pc # "returned" THEN {}
    ELSE IF InSearch /\ Payload.t = "array" THEN {Payload.a[i] : i \in 1..Len(Payload.a)}
    ELSE IF Calls("get_article_metadata") /\ Payload.t = "object" /\ ~HasErrorField(Payload)
      THEN {Payload}
    ELSE {}

\* C8: every record returned by search_keywords, search_advanced or
\* get_article_metadata has a non-empty pmid and the url
\* https://pubmed.ncbi.nlm.nih.gov/{pmid}/ of that pmid.
C8_PmidNonEmptyAndUrl ==
    \A record \in ReturnedRecords :
        /\ NonEmptyString(record.o.pmid)
        /\ record.o.url = Str("https://pubmed.ncbi.nlm.nih.gov/" \o record.o.pmid.v \o "/")

\* the decimal numeral of each integer pmid of the model
DecimalForm == (0 :> "0") @@ (7 :> "7") @@ (105 :> "105")

\* the call before this one had the integer pmid whose decimal form this one has
SecondOfPair ==
    /\ prev.kind = "invocation"
    /\ req.args.o.pmid = Str(DecimalForm[prev.req.args.o.pmid.v])

\* C9: get_article_metadata and get_article_pdf called with an integer pmid and
\* called with the string of its decimal form issue the same fetch request and,
\* when the upstream answers both alike, return the same response.
C9_IntegerAndStringAgree ==
    SecondOfPair =>
        /\ pc # "called" => calls = prev.calls
        /\ pc = "returned" /\ replies = prev.replies => response = prev.response

\* C9 without its zero: the same for every integer pmid other than 0.
C9_NonZeroIntegerAndStringAgree ==
    SecondOfPair /\ prev.req.args.o.pmid.v # 0 => C9_IntegerAndStringAgree

Present(value) == value.t = "string" /\ value.v # ""

\* the clause of the date range: 1800 for a start date not given, 3000 for an
\* end date not given, no clause when neither is given
DateClause(start, end) ==
    IF ~Present(start) /\ ~Present(end) THEN ""
    ELSE (IF Present(start) THEN start.v ELSE "1800") \o ":"
           \o (IF Present(end) THEN end.v ELSE "3000") \o "[Date - Publication]"

Tagged(value, tag) == IF Present(value) THEN value.v \o tag ELSE ""

\* the clauses of the five positions, "" for a position without clause
Clauses(args) ==
    <<Tagged(args.term, ""), Tagged(args.title, "[Title]"), Tagged(args.author, "[Author]"),
      Tagged(args.journal, "[Journal]"), DateClause(args.start_date, args.end_date)>>

ExpectedQuery(args) == Join(SelectSeq(Clauses(args), LAMBDA clause : clause # ""), " AND ")

\* C10: the term of the advanced search call is the clauses of the filters given,
\* joined by " AND " in the order term, title, author, journal, date range, the
\* term as it is, title, author and journal with their tag, the date range with
\* 3000 for a missing end date and 1800 for a missing start date.
C10_QueryIsClausesInOrder ==
    calls # <<>> =>
        /\ calls[1].api = "esearch"
        /\ calls[1].url.term = encodeURIComponent(Str(ExpectedQuery(req.args.o)))
        /\ (Filters(req.args.o) \ {Undefined, Str("")} = {Str("2023/01/01")}) =>
             calls[1].url.term = encodeURIComponent(Str("2023/01/01:3000[Date - Publication]"))
        /\ (Filters(req.args.o) \ {Undefined, Str("")} = {Str("2024/12/31")}) =>
             calls[1].url.term = encodeURIComponent(Str("1800:2024/12/31[Date - Publication]"))

\* every filter but the start date is given: five clauses, the date range open at 1800
C10_Witness ==
    /\ calls # <<>>
    /\ req.args.o.start_date = Undefined
    /\ calls[1].url.term = encodeURIComponent(Str(
         "crispr AND gene editing[Title] AND Smith J[Author] AND Nature[Journal] AND 1800:2024/12/31[Date - Publication]"))

----------------------------------------------------------------------------
(* Publication dates *)

\* PubDate[0] as xml2js gives it: absent; the empty string of an empty element;
\* an object with any of Year, Month, Day (with none of them when the element
\* holds only other children, such as MedlineDate)
PubDates ==
    {Undefined, Str("")}
        \cup {PubDate(year, month, day) :
                year \in {Undefined, Str("2024")},
                month \in {Undefined, Str("Mar")},
                day \in {Undefined, Str("15")}}

\* articles that differ in their title and their publication date
PubDateReplies ==
    {ArticleDoc([ArticleTitle |-> title, JournalTitle |-> Str("Nature Medicine"),
                 PubDate |-> date], Undefined) :
        title \in {Undefined, Str("Gene editing in oncology")}, date \in PubDates}

InitPubDate ==
    /\ req \in {r \in PmidRequests : r.args.o.method = Str("get_article_metadata")}
    /\ Fresh

NextPubDate ==
    \/ GetArticleMetadataCase
    \/ \E reply \in PubDateReplies : MetadataFetchSettles(reply)

\* get_article_metadata over every shape of the publication date
SpecPubDate == InitPubDate /\ [][NextPubDate]_vars

\* the PubDate element of the article the first reply carried
RepliedPubDate == replies[1].doc.PubmedArticle.o.MedlineCitation.o.PubDate

\* a component of the publication date, "" when the element or the component is absent
Component(pubDate, name) ==
    IF pubDate.t = "object" /\ pubDate.o[name].t = "string" THEN pubDate.o[name].v ELSE ""

ComponentsOf(pubDate) ==
    SelectSeq(<<Component(pubDate, "Year"), Component(pubDate, "Month"),
                Component(pubDate, "Day")>>,
              LAMBDA part : part # "")

\* C11: the publication_date of a record is the year, month and day that are
\* present, joined by "-" in that order, and is "Unknown date" when none of the
\* three is present, the PubDate element absent or present without them.
C11_DateOrSentinel ==
    pc = "returned" /\ Payload.t = "object" /\ ~HasErrorField(Payload) =>
        Payload.o.publication_date =
            IF ComponentsOf(RepliedPubDate) = <<>> THEN Str("Unknown date")
            ELSE Str(Join(ComponentsOf(RepliedPubDate), "-"))

\* C11 but for the element that is present without components: the sentinel
\* stands only for an absent (or empty) PubDate element, and a PubDate element
\* with children other than Year, Month, Day gives the empty string.
C11_SentinelOnlyWithoutElement ==
    pc = "returned" /\ Payload.t = "object" /\ ~HasErrorField(Payload) =>
        Payload.o.publication_date =
            IF RepliedPubDate.t # "object" THEN Str("Unknown date")
            ELSE Str(Join(ComponentsOf(RepliedPubDate), "-"))

\* C12: in a search invocation the upstream calls go one after the other in
\* program order: the first call is the search, every later call is a fetch, a
\* call is issued only when every call before it has been answered, so that at
\* most one is in flight, and the fetches are those of the identifiers returned,
\* one each, in their order.
C12_SequentialInProgramOrder ==
    InSearch =>
        /\ Cardinality(inflight) <= 1
        /\ Len(replies) <= Len(calls)
        /\ Len(calls) <= Len(replies) + 1
        /\ inflight = IF Len(calls) > Len(replies) THEN {Len(calls)} ELSE {}
        /\ calls # <<>> => calls[1].api = "esearch"
        /\ Len(calls) <= 1 + Len(pmids)
        /\ \A i \in 2..Len(calls) :
             calls[i] = [api |-> "efetch", url |-> EfetchUrl(pmids[i - 1])]
        /\ pc = "returned" /\ ~FailsValidation(req) =>
             /\ Len(calls) = 1 + Len(pmids)
             /\ Len(replies) = Len(calls)

\* a search over two identifiers has made its three calls, one at a time
C12_Witness ==
    /\ pc = "returned"
    /\ InSearch
    /\ Len(pmids) = 2
    /\ pmids[1] # pmids[2]
    /\ Len(calls) = 3
    /\ Len(replies) = 3
    /\ inflight = {}

----------------------------------------------------------------------------
(* Termination *)

\* The code of the handler between two awaits runs once it can, and every axios
\* call settles: with a response, with a failure, or by its timeout of 30000 ms
\* (lines 215, 247).
FairSpec == Spec /\ WF_vars(Next)

\* C13 as stated: every invocation eventually returns a response to its caller.
C13_EventuallyReturns == <>(pc = "returned")

\* C13 amended: provided every upstream call eventually completes and the search
\* reply carries a finite identifier list, every invocation of pubmed_articles
\* eventually returns a response to its caller, and an invocation that names
\* another operation eventually throws; none waits or loops forever.
C13_EventuallySettles ==
    <>(\/ req.name = "pubmed_articles" /\ pc = "returned"
       \/ req.name # "pubmed_articles" /\ pc = "threw")

\* a search returned although each of its fetches timed out
C13_Witness ==
    /\ pc = "returned"
    /\ InSearch
    /\ Len(replies) = 3
    /\ replies[2] = [status |-> "timeout"]
    /\ replies[3] = [status |-> "timeout"]
    /\ Payload = Arr(<<>>)

====
